---- MODULE Spec2Model ----
(***************************************************************************)
(* Model of the Pomodoro clock controller in src/script.js (component App). *)
(*                                                                         *)
(* Every event handler (a button click, one firing of the interval         *)
(* callback) runs to completion on the single JavaScript thread and React  *)
(* re-renders before the next event is handled, so each handler is one     *)
(* atomic action and a click handler reads the state of the latest render.  *)
(* The interval callback is the exception the code creates itself: it is    *)
(* a closure made inside startTimer, so it keeps the breakLength and        *)
(* sessionLength of the render in which startTimer ran and its own mutable  *)
(* copy breakOnVar of the phase.                                            *)
(***************************************************************************)
EXTENDS Integers, FiniteSets, Sequences, TLC

\* ---------------------------------------------------------------- bounds
MaxTicks == 125        \* interval firings explored by Spec
MaxAdjusts == 1        \* clicks on the four length buttons explored by Spec
MaxIntervals == 2      \* setInterval calls explored by Spec
RunTicks == 1510       \* interval firings explored by SpecRun
ConfigAdjusts == 40    \* clicks on the length buttons explored by SpecConfig
FormatTicks == 3600    \* interval firings explored by SpecFormat
MaxTicksCounted == 4000  \* the count of interval firings stops here
MaxBeepsCounted == 3     \* the count of playAudio() calls stops here

\* ------------------------------------------------------ program constants
SecondsPerMinute == 60
MinLength == 1
MaxLength == 60
DefaultBreak == 5
DefaultSession == 25
FirstHandle == 1

\* Lengths of the configured initial states of Spec: both settings at the
\* lower limit, one above it, one below the upper limit, at the upper limit.
\* Every pair of lengths in 1..60 is reached from the constructed state 5/25
\* by clicks on the length buttons alone (24 or 23 decrements of the session
\* and 4 or 3 of the break, 34 or 35 increments of the session and 54 or 55
\* of the break), and in such a state the timer is off, the phase is Session
\* and the display shows the session length.
InitLengths == {1, 2, 59, 60}

VARIABLES
  displayTime,     \* useState(25 * 60): seconds left in the phase
  breakLength,     \* useState(5): minutes
  sessionLength,   \* useState(25): minutes
  timerOn,         \* useState(false): 0 models false, else the interval handle
  breakOn,         \* useState(false)
  intervals,       \* the live setInterval tasks with the values their closure holds
  nextHandle,      \* the handle the next setInterval call returns
  audioPaused,     \* audioRef.current as left by play()/pause()
  timeLeft,        \* the text rendered in #time-left: timeFormat(displayTime)
  beeps,           \* number of playAudio() calls so far, up to MaxBeepsCounted
  ticks,           \* number of interval firings so far, up to MaxTicksCounted
  adjusts,         \* number of clicks on the length buttons so far
  lastOp,          \* the handler that ran last
  pre              \* the component state that handler started from

vars == <<displayTime, breakLength, sessionLength, timerOn, breakOn,
          intervals, nextHandle, audioPaused, timeLeft, beeps, ticks, adjusts,
          lastOp, pre>>

Types == {"break", "session"}
Amounts == {1, -1}

Snapshot ==
  [displayTime |-> displayTime, breakLength |-> breakLength,
   sessionLength |-> sessionLength, timerOn |-> timerOn, breakOn |-> breakOn,
   intervals |-> intervals, audioPaused |-> audioPaused, beeps |-> beeps]

\* The two counts observe the run; they stop at their limit so that a timer
\* that runs forever has finitely many states.
CountUp(n, limit) == IF n < limit THEN n + 1 ELSE n

Op(name, type, amount) == [op |-> name, type |-> type, amount |-> amount]

\* ------------------------------------------------------------- timeFormat
DigitChar(d) == <<"0", "1", "2", "3", "4", "5", "6", "7", "8", "9">>[d + 1]

\* Number.prototype.toString() of an integer: decimal digits, "-" first when
\* negative.
RECURSIVE NumberToString(_)
NumberToString(n) ==
  IF n < 0 THEN "-" \o NumberToString(-n)
  ELSE IF n < 10 THEN DigitChar(n)
  ELSE NumberToString(n \div 10) \o DigitChar(n % 10)

NoPadStart(str, targetLength, padString) == str

\* String.prototype.padStart with a one-character pad string.
RECURSIVE PadStart(_, _, _)
PadStart(str, targetLength, padString) ==
  IF Len(str) >= targetLength THEN str
  ELSE PadStart(padString \o str, targetLength, padString)

\* The % of JavaScript: the result has the sign of the dividend.
Remainder(a, b) == IF a >= 0 THEN a % b ELSE -((-a) % b)

\* Math.floor(time / 60): \div rounds down.
TimeFormat(time) ==
  LET minutes == PadStart(NumberToString(time \div 60), 2, "0")
      seconds == PadStart(NumberToString(Remainder(time, 60)), 2, "0")
  IN minutes \o ":" \o seconds

\* timeFormat on every time an hour-long phase can show, computed once.
Formatted == [time \in 0..(MaxLength * SecondsPerMinute) |-> TimeFormat(time)]

\* The render that follows every state change shows the new display time.
Render ==
  timeLeft' = IF displayTime' \in DOMAIN Formatted
                THEN Formatted[displayTime']
                ELSE TimeFormat(displayTime')

\* ------------------------------------------------------------------ App
InitWith(b, s) ==
  /\ displayTime = s * SecondsPerMinute
  /\ breakLength = b
  /\ sessionLength = s
  /\ timerOn = 0
  /\ breakOn = FALSE
  /\ intervals = {}
  /\ nextHandle = FirstHandle
  /\ audioPaused = TRUE
  /\ timeLeft = TimeFormat(s * SecondsPerMinute)
  /\ beeps = 0
  /\ ticks = 0
  /\ adjusts = 0
  /\ lastOp = Op("init", "none", 0)
  /\ pre = [displayTime |-> s * SecondsPerMinute, breakLength |-> b,
            sessionLength |-> s, timerOn |-> 0, breakOn |-> FALSE,
            intervals |-> {}, audioPaused |-> TRUE, beeps |-> 0]

\* The state after construction.
InitApp == InitWith(DefaultBreak, DefaultSession)

\* The states Spec starts from: constructed, or constructed and then
\* configured with the length buttons.
Init ==
  \/ InitApp
  \/ \E n \in InitLengths : InitWith(n, n)

\* ------------------------------------------------ handleIncrementDecrement
OutOfRangeStrict(len) == len < MinLength \/ len > MaxLength

StaleSessionDisplayTime(len, amount) == len * SecondsPerMinute

\* setDisplayTime((sessionLength + amount) * 60)
SessionDisplayTime(len, amount) == (len + amount) * SecondsPerMinute

\* The early return of both branches.
OutOfRange(len) == len <= MinLength \/ len >= MaxLength

\* The length one click leaves in a field that held len: the early return
\* keeps it, otherwise the updater prev => prev + amount runs.
AdjustedLength(len, amount) == IF OutOfRange(len) THEN len ELSE len + amount

HandleIncrementDecrementBoth(type, amount) ==
  /\ lastOp' = Op("adjust", type, amount)
  /\ pre' = Snapshot
  /\ adjusts' = adjusts + 1
  /\ IF type = "break"
       THEN /\ breakLength' = AdjustedLength(breakLength, amount)
            /\ displayTime' = IF OutOfRange(breakLength) \/ ~breakOn
                                 THEN displayTime
                                 ELSE SessionDisplayTime(breakLength, amount)
            /\ UNCHANGED sessionLength
       ELSE /\ sessionLength' = AdjustedLength(sessionLength, amount)
            /\ displayTime' = IF OutOfRange(sessionLength)
                                 THEN displayTime
                                 ELSE SessionDisplayTime(sessionLength, amount)
            /\ UNCHANGED breakLength
  /\ UNCHANGED <<timerOn, breakOn, intervals, nextHandle, audioPaused,
                 beeps, ticks>>
  /\ Render

HandleIncrementDecrement(type, amount) ==
  /\ lastOp' = Op("adjust", type, amount)
  /\ pre' = Snapshot
  /\ adjusts' = adjusts + 1
  /\ IF type = "break"
       THEN /\ breakLength' = AdjustedLength(breakLength, amount)
            /\ UNCHANGED <<sessionLength, displayTime>>
       ELSE /\ sessionLength' = AdjustedLength(sessionLength, amount)
            /\ displayTime' = IF OutOfRange(sessionLength)
                                 THEN displayTime
                                 ELSE SessionDisplayTime(sessionLength, amount)
            /\ UNCHANGED breakLength
  /\ UNCHANGED <<timerOn, breakOn, intervals, nextHandle, audioPaused,
                 beeps, ticks>>
  /\ Render

Adjust ==
  /\ adjusts < MaxAdjusts
  /\ \E type \in Types, amount \in Amounts : HandleIncrementDecrement(type, amount)

\* ------------------------------------------------------------ clearInterval
KeepInterval(tasks, handle) == tasks

\* clearInterval(handle): the task with that handle, if any, never fires again.
ClearInterval(tasks, handle) == {iv \in tasks : iv.handle # handle}

\* clearInterval(breakOn) converts the boolean to a handle: true is 1, false is 0.
ToHandle(b) == IF b THEN 1 ELSE 0

\* ---------------------------------------------------------------- startTimer
StartTimerRestart ==
  /\ lastOp' = Op("start", "none", 0)
  /\ pre' = Snapshot
  /\ IF timerOn # 0
       THEN /\ intervals' = ClearInterval(intervals, timerOn)
            /\ timerOn' = 0
            /\ UNCHANGED <<nextHandle, displayTime>>
       ELSE /\ intervals' = intervals \cup
                   {[handle |-> nextHandle, breakOnVar |-> breakOn,
                     breakLength |-> breakLength, sessionLength |-> sessionLength]}
            /\ timerOn' = nextHandle
            /\ nextHandle' = nextHandle + 1
            /\ displayTime' = (IF breakOn THEN breakLength ELSE sessionLength)
                                 * SecondsPerMinute
  /\ UNCHANGED <<breakLength, sessionLength, breakOn,
                 audioPaused, beeps, ticks, adjusts>>
  /\ Render

StartTimerInSession ==
  /\ lastOp' = Op("start", "none", 0)
  /\ pre' = Snapshot
  /\ IF timerOn # 0
       THEN /\ intervals' = ClearInterval(intervals, timerOn)
            /\ timerOn' = 0
            /\ UNCHANGED nextHandle
       ELSE /\ intervals' = intervals \cup
                   {[handle |-> nextHandle, breakOnVar |-> FALSE,
                     breakLength |-> breakLength, sessionLength |-> sessionLength]}
            /\ timerOn' = nextHandle
            /\ nextHandle' = nextHandle + 1
  /\ UNCHANGED <<displayTime, breakLength, sessionLength, breakOn,
                 audioPaused, beeps, ticks, adjusts>>
  /\ Render

StartTimer ==
  /\ lastOp' = Op("start", "none", 0)
  /\ pre' = Snapshot
  /\ IF timerOn # 0
       THEN /\ intervals' = ClearInterval(intervals, timerOn)
            /\ timerOn' = 0
            /\ UNCHANGED nextHandle
       ELSE /\ intervals' = intervals \cup
                   {[handle |-> nextHandle, breakOnVar |-> breakOn,
                     breakLength |-> breakLength, sessionLength |-> sessionLength]}
            /\ timerOn' = nextHandle
            /\ nextHandle' = nextHandle + 1
  /\ UNCHANGED <<displayTime, breakLength, sessionLength, breakOn,
                 audioPaused, beeps, ticks, adjusts>>
  /\ Render

Start ==
  /\ timerOn = 0 => nextHandle < FirstHandle + MaxIntervals
  /\ StartTimer

\* ------------------------------------------------------------------ playAudio
NoAudio == UNCHANGED <<beeps, audioPaused>>

\* audioRef.current.currentTime = 0; audioRef.current.play()
PlayAudio ==
  /\ beeps' = CountUp(beeps, MaxBeepsCounted)
  /\ audioPaused' = FALSE

\* ------------------------------------------------- the setInterval callback
ToBreakEarly(prev, breakOnVar) == prev = 1 /\ ~breakOnVar

\* prev === 0 && !breakOnVar
ToBreak(prev, breakOnVar) == prev = 0 /\ ~breakOnVar

ToSessionNever(prev, breakOnVar) == FALSE

\* prev === 0 && breakOnVar
ToSession(prev, breakOnVar) == prev = 0 /\ breakOnVar

IntervalCallbackBreakOnly(iv) ==
  /\ lastOp' = Op("tick", "none", 0)
  /\ pre' = Snapshot
  /\ ticks' = CountUp(ticks, MaxTicksCounted)
  /\ IF ToBreak(displayTime, iv.breakOnVar)
       THEN /\ PlayAudio
            /\ intervals' = (intervals \ {iv}) \cup {[iv EXCEPT !.breakOnVar = TRUE]}
            /\ breakOn' = TRUE
            /\ displayTime' = iv.breakLength * SecondsPerMinute
       ELSE IF ToSession(displayTime, iv.breakOnVar)
              THEN /\ PlayAudio
                   /\ intervals' = (intervals \ {iv}) \cup {[iv EXCEPT !.breakOnVar = TRUE]}
                   /\ breakOn' = TRUE
                   /\ displayTime' = iv.breakLength * SecondsPerMinute
              ELSE /\ displayTime' = displayTime - 1
                   /\ UNCHANGED <<beeps, audioPaused, intervals, breakOn>>
  /\ UNCHANGED <<breakLength, sessionLength, timerOn, nextHandle, adjusts>>
  /\ Render

IntervalCallbackLive(iv) ==
  /\ lastOp' = Op("tick", "none", 0)
  /\ pre' = Snapshot
  /\ ticks' = CountUp(ticks, MaxTicksCounted)
  /\ IF ToBreak(displayTime, iv.breakOnVar)
       THEN /\ PlayAudio
            /\ intervals' = (intervals \ {iv}) \cup {[iv EXCEPT !.breakOnVar = TRUE]}
            /\ breakOn' = TRUE
            /\ displayTime' = breakLength * SecondsPerMinute
       ELSE IF ToSession(displayTime, iv.breakOnVar)
              THEN /\ PlayAudio
                   /\ intervals' = (intervals \ {iv}) \cup {[iv EXCEPT !.breakOnVar = FALSE]}
                   /\ breakOn' = FALSE
                   /\ displayTime' = sessionLength * SecondsPerMinute
              ELSE /\ displayTime' = displayTime - 1
                   /\ UNCHANGED <<beeps, audioPaused, intervals, breakOn>>
  /\ UNCHANGED <<breakLength, sessionLength, timerOn, nextHandle, adjusts>>
  /\ Render

\* One firing of the task iv: the updater passed to setDisplayTime, with the
\* playAudio and setBreakOn calls it makes.
IntervalCallback(iv) ==
  /\ lastOp' = Op("tick", "none", 0)
  /\ pre' = Snapshot
  /\ ticks' = CountUp(ticks, MaxTicksCounted)
  /\ IF ToBreak(displayTime, iv.breakOnVar)
       THEN /\ PlayAudio
            /\ intervals' = (intervals \ {iv}) \cup {[iv EXCEPT !.breakOnVar = TRUE]}
            /\ breakOn' = TRUE
            /\ displayTime' = iv.breakLength * SecondsPerMinute
       ELSE IF ToSession(displayTime, iv.breakOnVar)
              THEN /\ PlayAudio
                   /\ intervals' = (intervals \ {iv}) \cup {[iv EXCEPT !.breakOnVar = FALSE]}
                   /\ breakOn' = FALSE
                   /\ displayTime' = iv.sessionLength * SecondsPerMinute
              ELSE /\ displayTime' = displayTime - 1
                   /\ UNCHANGED <<beeps, audioPaused, intervals, breakOn>>
  /\ UNCHANGED <<breakLength, sessionLength, timerOn, nextHandle, adjusts>>
  /\ Render

Tick ==
  /\ ticks < MaxTicks
  /\ \E iv \in intervals : IntervalCallback(iv)

\* --------------------------------------------------------------------- reset
ResetKeepPhase ==
  /\ lastOp' = Op("reset", "none", 0)
  /\ pre' = Snapshot
  /\ breakLength' = DefaultBreak
  /\ sessionLength' = DefaultSession
  /\ displayTime' = DefaultSession * SecondsPerMinute
  /\ timerOn' = 0
  /\ intervals' = ClearInterval(ClearInterval(intervals, timerOn), ToHandle(breakOn))
  /\ audioPaused' = TRUE
  /\ UNCHANGED <<breakOn, nextHandle, beeps, ticks, adjusts>>
  /\ Render

Reset ==
  /\ lastOp' = Op("reset", "none", 0)
  /\ pre' = Snapshot
  /\ breakLength' = DefaultBreak
  /\ sessionLength' = DefaultSession
  /\ displayTime' = DefaultSession * SecondsPerMinute
  /\ timerOn' = 0
  /\ breakOn' = FALSE
  /\ intervals' = ClearInterval(ClearInterval(intervals, timerOn), ToHandle(breakOn))
  /\ audioPaused' = TRUE
  /\ UNCHANGED <<nextHandle, beeps, ticks, adjusts>>
  /\ Render

\* ------------------------------------------------------------ specifications
Next == Adjust \/ Start \/ Tick \/ Reset

Spec == Init /\ [][Next]_vars

\* The scenario "construct, press start, let it run": one start() and then
\* only interval firings.
RunStart ==
  /\ timerOn = 0
  /\ ticks = 0
  /\ StartTimer

RunTick ==
  /\ ticks < RunTicks
  /\ \E iv \in intervals : IntervalCallback(iv)

NextRun == RunStart \/ RunTick

SpecRun == InitApp /\ [][NextRun]_vars

\* A full hour counted down: both lengths at 60, one start() and then only
\* interval firings, so that every time from 3600 to 0 is rendered.
FormatStart ==
  /\ timerOn = 0
  /\ ticks = 0
  /\ StartTimer

FormatTick ==
  /\ ticks < FormatTicks
  /\ \E iv \in intervals : IntervalCallback(iv)

NextFormat == FormatStart \/ FormatTick

SpecFormat == InitWith(MaxLength, MaxLength) /\ [][NextFormat]_vars

\* The timer is started once and left alone.  setInterval keeps firing the
\* callback every second until clearInterval is called, so the interval
\* firing is weakly fair.
LiveStart ==
  /\ timerOn = 0
  /\ ticks = 0
  /\ StartTimer

LiveTick == \E iv \in intervals : IntervalCallback(iv)

NextLive == LiveStart \/ LiveTick

SpecLive == Init /\ [][NextLive]_vars /\ WF_vars(LiveTick)

\* The timer is configured and reset but never started: clicks on the four
\* length buttons and on reset, from the constructed state.
ConfigAdjust ==
  /\ adjusts < ConfigAdjusts
  /\ \E type \in Types, amount \in Amounts : HandleIncrementDecrement(type, amount)

ConfigReset == Reset

NextConfig == ConfigAdjust \/ ConfigReset

SpecConfig == InitApp /\ [][NextConfig]_vars

\* ------------------------------------------------------------------ claims
\* The field the last click addressed, before and after that click.
PreField == IF lastOp.type = "break" THEN pre.breakLength ELSE pre.sessionLength

CurField == IF lastOp.type = "break" THEN breakLength ELSE sessionLength

Accepted == lastOp.op = "adjust" /\ PreField > 1 /\ PreField < 60

\* C1: whatever the state reset() starts from, it ends with breakMinutes 5,
\* sessionMinutes 25, remainingSeconds 1500, not running and not on break.
ResetYieldsDefaults ==
  lastOp.op = "reset" =>
    /\ breakLength = 5
    /\ sessionLength = 25
    /\ displayTime = 1500
    /\ timerOn = 0
    /\ breakOn = FALSE

ResetFromRunningBreak ==
  /\ lastOp.op = "reset"
  /\ pre.timerOn # 0
  /\ pre.breakOn
  /\ pre.breakLength # 5
  /\ pre.sessionLength # 25
  /\ pre.displayTime # 1500

\* C2: in every reachable state both lengths lie within 1..60.
LengthsInRange ==
  /\ breakLength \in 1..60
  /\ sessionLength \in 1..60

ReachedUpperLimit ==
  /\ lastOp = Op("adjust", "session", 1)
  /\ pre.sessionLength = 59
  /\ sessionLength = 60

\* C3: an increment of a field holding 60 or more and a decrement of a field
\* holding 1 or less change nothing: lengths, remaining time, running flag,
\* phase, tick task and alert are as before the click.
RejectedAdjustIsNoOp ==
  (/\ lastOp.op = "adjust"
   /\ \/ lastOp.amount = 1 /\ PreField >= 60
      \/ lastOp.amount = -1 /\ PreField <= 1)
  => /\ displayTime = pre.displayTime
     /\ breakLength = pre.breakLength
     /\ sessionLength = pre.sessionLength
     /\ timerOn = pre.timerOn
     /\ breakOn = pre.breakOn
     /\ intervals = pre.intervals
     /\ beeps = pre.beeps
     /\ audioPaused = pre.audioPaused

RejectedWhileRunning ==
  /\ lastOp = Op("adjust", "session", -1)
  /\ pre.sessionLength = 1
  /\ pre.timerOn # 0
  /\ pre.displayTime < 60

RunRollsOverOnTick1501 ==
  /\ ticks <= 1500 => beeps = 0 /\ ~breakOn /\ displayTime = 1500 - ticks
  /\ ticks = 1501 => beeps = 1 /\ breakOn /\ displayTime = breakLength * 60

RunAfter1501Ticks ==
  /\ ticks = 1501
  /\ lastOp.op = "tick"
  /\ pre.displayTime = 0
  /\ timerOn # 0

\* C5 as stated: after exactly 1500 ticks of that run the alert has played
\* once, the break is on and the display shows breakMinutes*60.
RunRollsOverOnTick1500 ==
  ticks = 1500 => beeps = 1 /\ breakOn /\ displayTime = breakLength * 60

\* C6: a tick that finds remainingSeconds at 0 plays the alert, flips the
\* phase and shows 60 times the length configured, at that moment, for the
\* phase it enters.
RolloverUsesCurrentLength ==
  (lastOp.op = "tick" /\ pre.displayTime = 0)
  => /\ beeps = pre.beeps + 1
     /\ breakOn = ~pre.breakOn
     /\ displayTime = 60 * (IF breakOn THEN breakLength ELSE sessionLength)

\* C7: a tick task is live only while the timer is on and there is never more
\* than one; pausing and reset leave none, and every tick that happened
\* started from a state with the timer on.
NoTickWhileStopped ==
  /\ timerOn = 0 => intervals = {}
  /\ Cardinality(intervals) <= 1
  /\ lastOp.op = "tick" => pre.timerOn # 0
  /\ (lastOp.op = "reset" \/ (lastOp.op = "start" /\ pre.timerOn # 0))
       => timerOn = 0 /\ intervals = {}

PausedAfterTicks ==
  /\ lastOp.op = "start"
  /\ pre.timerOn # 0
  /\ pre.intervals # {}
  /\ ticks > 0
  /\ timerOn = 0

\* C8 as amended: a step plays the alert only if it changes the phase, and a
\* step other than reset() that changes the phase plays the alert once;
\* reset() returns a break to the session phase without playing it.
AlertAtTickRollover ==
  /\ beeps # pre.beeps => breakOn # pre.breakOn
  /\ (breakOn # pre.breakOn /\ lastOp.op # "reset") => beeps = pre.beeps + 1
  /\ lastOp.op = "reset" => beeps = pre.beeps

AlertOnReturnToSession ==
  /\ lastOp.op = "tick"
  /\ pre.breakOn
  /\ ~breakOn
  /\ beeps = pre.beeps + 1

\* C8 as stated: in every step the alert is played if and only if the phase
\* changes in that step.
AlertIffPhaseChange ==
  (beeps # pre.beeps) <=> (breakOn # pre.breakOn)

\* C9: an accepted adjust(Session, delta) shows (old sessionMinutes + delta)*60,
\* which is the new sessionMinutes*60, and leaves the running flag and the
\* phase as they were, whether or not the timer runs or a break is on.
SessionAdjustRetargets ==
  (Accepted /\ lastOp.type = "session")
  => /\ displayTime = (pre.sessionLength + lastOp.amount) * 60
     /\ displayTime = sessionLength * 60
     /\ timerOn = pre.timerOn
     /\ breakOn = pre.breakOn

SessionAdjustedInRunningBreak ==
  /\ Accepted
  /\ lastOp.type = "session"
  /\ pre.timerOn # 0
  /\ pre.breakOn
  /\ pre.displayTime # sessionLength * 60

\* C10: remainingSeconds is never negative.
DisplayTimeNonNegative == displayTime >= 0

BreakCountedDownToZero ==
  /\ displayTime = 0
  /\ breakOn
  /\ lastOp.op = "tick"
  /\ pre.displayTime = 1

\* C11: start() turns a stopped timer on and a running timer off and leaves
\* the remaining time, both lengths and the phase as they were, so a resumed
\* countdown continues from the paused value in the same phase.
StartOnlyToggles ==
  lastOp.op = "start" =>
    /\ (timerOn # 0) = (pre.timerOn = 0)
    /\ displayTime = pre.displayTime
    /\ breakLength = pre.breakLength
    /\ sessionLength = pre.sessionLength
    /\ breakOn = pre.breakOn

ResumedInBreak ==
  /\ lastOp.op = "start"
  /\ pre.timerOn = 0
  /\ timerOn # 0
  /\ breakOn
  /\ displayTime # breakLength * 60
  /\ displayTime # sessionLength * 60

\* C13: the tick that takes remainingSeconds from 1 to 0 only shows 0 (no
\* alert, same phase) and the tick after it performs the rollover; with both
\* lengths L and no adjust or reset, each phase therefore lasts 60*L + 1
\* ticks.
ZeroShownForOneTick ==
  /\ (lastOp.op = "tick" /\ pre.displayTime = 1)
       => displayTime = 0 /\ beeps = pre.beeps /\ breakOn = pre.breakOn
  /\ (lastOp.op = "tick" /\ pre.displayTime = 0)
       => breakOn # pre.breakOn /\ displayTime > 0
  /\ (adjusts = 0 /\ breakLength = sessionLength)
       => breakOn = (((ticks \div (60 * sessionLength + 1)) % 2) = 1)

SessionShowsZero ==
  /\ lastOp.op = "tick"
  /\ pre.displayTime = 1
  /\ displayTime = 0
  /\ ~breakOn
  /\ timerOn # 0

\* C14: a rollover shows 60 times the length that was configured when the
\* running tick task was created by start(): adjusting a length while the
\* timer runs changes nothing the task holds, and a task created by a later
\* start() holds the lengths configured at that start().
RolloverUsesLengthAtStart ==
  /\ (lastOp.op = "tick" /\ pre.displayTime = 0)
       => \A iv \in pre.intervals :
            displayTime = 60 * (IF breakOn THEN iv.breakLength ELSE iv.sessionLength)
  /\ (lastOp.op = "start" /\ timerOn # 0)
       => \A iv \in intervals :
            iv.breakLength = breakLength /\ iv.sessionLength = sessionLength
  /\ lastOp.op = "adjust" => intervals = pre.intervals
  /\ lastOp.op = "tick"
       => \A iv \in intervals : \E old \in pre.intervals :
            iv.breakLength = old.breakLength /\ iv.sessionLength = old.sessionLength

RolloverWithStaleLength ==
  /\ lastOp.op = "tick"
  /\ pre.displayTime = 0
  /\ breakOn
  /\ displayTime # 60 * breakLength

\* C15: adjust(Break, delta), accepted or rejected, leaves remainingSeconds,
\* sessionMinutes, the running flag and the phase as they were.
BreakAdjustKeepsCountdown ==
  (lastOp.op = "adjust" /\ lastOp.type = "break")
  => /\ displayTime = pre.displayTime
     /\ sessionLength = pre.sessionLength
     /\ timerOn = pre.timerOn
     /\ breakOn = pre.breakOn

BreakAdjustedInRunningBreak ==
  /\ Accepted
  /\ lastOp.type = "break"
  /\ breakLength # pre.breakLength
  /\ pre.breakOn
  /\ pre.timerOn # 0

\* C16: the phase changes only in a tick that finds remainingSeconds at 0
\* and in reset().
PhaseChangesOnlyAtRolloverOrReset ==
  breakOn # pre.breakOn =>
    \/ lastOp.op = "tick" /\ pre.displayTime = 0
    \/ lastOp.op = "reset"

ResetEndsPausedBreak ==
  /\ lastOp.op = "reset"
  /\ pre.breakOn
  /\ ~breakOn
  /\ pre.timerOn = 0

\* C18: a length that holds 1 or 60 keeps that value through every step
\* other than reset(): adjusts in both directions are rejected there.
LimitIsAbsorbing ==
  lastOp.op # "reset" =>
    /\ pre.breakLength \in {1, 60} => breakLength = pre.breakLength
    /\ pre.sessionLength \in {1, 60} => sessionLength = pre.sessionLength

DecrementRejectedAtUpperLimit ==
  /\ lastOp = Op("adjust", "break", -1)
  /\ pre.breakLength = 60
  /\ breakLength = 60

\* C20: while the timer is on, the phase copy held by the tick task equals
\* the phase of the component.
TaskPhaseMatches ==
  timerOn # 0 => \A iv \in intervals : iv.breakOnVar = breakOn

ResumedTaskHoldsBreak ==
  /\ timerOn = FirstHandle + 1
  /\ breakOn
  /\ \E iv \in intervals : iv.handle = timerOn /\ iv.breakOnVar
  /\ lastOp.op = "tick"

\* C19: as long as the timer has not been started since construction or the
\* last reset, it is off, the phase is Session and the display shows
\* sessionMinutes*60.
UnstartedShowsSessionLength ==
  /\ timerOn = 0
  /\ breakOn = FALSE
  /\ displayTime = sessionLength * 60

ConfiguredToUpperLimit ==
  /\ lastOp.op = "adjust"
  /\ lastOp.type = "session"
  /\ sessionLength # pre.sessionLength
  /\ sessionLength = 60
  /\ breakLength # 5

\* C12: for every seconds value in 0..3600 the rendered text is the two
\* digits of floor(seconds/60), a colon and the two digits of seconds mod 60;
\* 0 is shown as 00:00, 65 as 01:05 and 3599 as 59:59.
TwoDigits(n) == DigitChar(n \div 10) \o DigitChar(n % 10)

TimeFormatIsMMSS ==
  /\ displayTime \in 0..3600
       => timeLeft = TwoDigits(displayTime \div 60) \o ":" \o TwoDigits(displayTime % 60)
  /\ displayTime = 0 => timeLeft = "00:00"
  /\ displayTime = 65 => timeLeft = "01:05"
  /\ displayTime = 3599 => timeLeft = "59:59"
  /\ displayTime = 3600 => timeLeft = "60:00"

RenderedAfterTick ==
  /\ lastOp.op = "tick"
  /\ displayTime = 65
  /\ timeLeft = "01:05"

\* C17: once the timer runs and is left alone, with the interval firing
\* again and again, the break phase is on infinitely often and the session
\* phase is on infinitely often.
PhasesAlternateForever ==
  [](timerOn # 0 => ([]<>breakOn /\ []<>(~breakOn)))

SecondSessionBegun ==
  /\ lastOp.op = "tick"
  /\ pre.breakOn
  /\ ~breakOn
  /\ beeps >= 2
  /\ timerOn # 0

====
